---------------------------- MODULE Spec2Model ----------------------------
(***************************************************************************)
(* Asynchronous job orchestration of the MusicGen service.                 *)
(*                                                                         *)
(* The request handlers of app/api/routes/generation.py and the background *)
(* task process_generation_job run on one asyncio event loop: a coroutine  *)
(* runs without interruption from one suspension point (an await that      *)
(* really suspends) to the next.  Each action below is one such            *)
(* uninterrupted stretch.  The engine's blocking calls (_generate_audio,   *)
(* _save_audio_sync) run in the default thread pool executor; the action   *)
(* that resumes the awaiting coroutine draws their outcome.                *)
(*                                                                         *)
(* Units: progress is counted in 1/10000 (0.3 = 3000), temperature and     *)
(* cfg_coef in tenths, top_p in hundredths, duration in seconds.           *)
(* An optional value is a sequence: None is <<>>, a present v is <<v>>.    *)
(***************************************************************************)
EXTENDS Integers, Sequences, FiniteSets, TLC

VARIABLES
    jobs,       \* generation.py:29  jobs: Dict[str, Dict[str, Any]]
    tasks,      \* per job: the background task and what it holds on its stack
    files,      \* generated_audio/<job_id>.wav, per job id
    clock,      \* what datetime.utcnow() returns
    resp,       \* the response sent in the last step, if it handled a request
    engine      \* the MusicGenEngine the service was started with

vars == <<jobs, tasks, files, clock, resp, engine>>

----------------------------------------------------------------------------
(* Bounds of the model *)

MaxJobs == 2
MaxClock == 1
MaxDraw == 2
MaxReports == 2
MaxCalls == 2

(* Program constants *)

steps == 20
start_progress == 3000
end_progress == 7500

----------------------------------------------------------------------------
(* Optional values *)

None == <<>>
Some(v) == <<v>>
IsSet(o) == o # <<>>

(* responses.py: GenerationStatus *)
QUEUED == "queued"
PROCESSING == "processing"
COMPLETED == "completed"
FAILED == "failed"
CANCELLED == "cancelled"

GenerationStatus == {QUEUED, PROCESSING, COMPLETED, FAILED, CANCELLED}

JobIds == 1..MaxJobs

----------------------------------------------------------------------------
(* Request validation: requests.py GenerationRequest *)

RECURSIVE lstrip(_)
lstrip(s) == IF s # <<>> /\ Head(s) = " " THEN lstrip(Tail(s)) ELSE s

RECURSIVE rstrip(_)
rstrip(s) ==
    IF s # <<>> /\ s[Len(s)] = " " THEN rstrip(SubSeq(s, 1, Len(s) - 1)) ELSE s

strip(s) == rstrip(lstrip(s))

(* The field constraints without the lower bound of duration. *)
FieldsValid_NoDurationFloor(raw) ==
    /\ Len(raw.prompt) >= 1 /\ Len(raw.prompt) <= 500
    /\ raw.duration <= 120
    /\ raw.temperature >= 1 /\ raw.temperature <= 20
    /\ raw.top_k >= 1 /\ raw.top_k <= 1000
    /\ raw.top_p >= 0 /\ raw.top_p <= 100
    /\ raw.cfg_coef >= 10 /\ raw.cfg_coef <= 100
    /\ (IsSet(raw.seed) => raw.seed[1] >= 0)

(* Field constraints and the prompt validator. *)
FieldsValid(raw) ==
    /\ Len(raw.prompt) >= 1 /\ Len(raw.prompt) <= 500
    /\ raw.duration >= 5 /\ raw.duration <= 120
    /\ raw.temperature >= 1 /\ raw.temperature <= 20
    /\ raw.top_k >= 1 /\ raw.top_k <= 1000
    /\ raw.top_p >= 0 /\ raw.top_p <= 100
    /\ raw.cfg_coef >= 10 /\ raw.cfg_coef <= 100
    /\ (IsSet(raw.seed) => raw.seed[1] >= 0)

validate_prompt(v) == strip(v) # <<>>

RequestValid(raw) == FieldsValid(raw) /\ validate_prompt(raw.prompt)

(* The request object the handler receives: the prompt is the validator's
   return value. *)
GenerationRequest(raw) == [raw EXCEPT !.prompt = strip(raw.prompt)]

(* The request bodies clients send in the model: the defaults of the
   request model around the fields named. *)
Body(prompt, duration, seed) ==
    [prompt |-> prompt, duration |-> duration, temperature |-> 10,
     top_k |-> 250, top_p |-> 0, cfg_coef |-> 30, seed |-> seed]

RawRequests ==
    {Body(<<" ", "a">>, 5, None), Body(<<" ", "a">>, 5, Some(12345)),
     Body(<<>>, 5, None), Body(<<" ">>, 5, None),
     Body(<<" ", "a">>, 0, None), Body(<<" ", "a">>, 5, Some(-1))}

----------------------------------------------------------------------------
(* The engine: musicgen_engine.py *)

(* The implementations MusicGenEngine.initialize chooses between.  The
   AudioCraft model samples like the Hugging Face one and differs from it only
   in the length of its output, so the model starts the service with the
   first or the last of the three. *)
EngineKinds == {"hf", "mock"}

(* MusicGenEngine.initialize: the implementation found at import time
   decides the model and its sample rate. *)
initialize(kind) ==
    [kind |-> kind,
     sample_rate |-> IF kind = "mock" THEN 44100 ELSE 32000,
     is_initialized |-> TRUE]

(* The draws of the process-wide random generators a sampling run can see:
   fixed by the seed when _generate_audio seeded them, arbitrary otherwise. *)
SampleDraws(seed) ==
    IF IsSet(seed) THEN {seed[1] % MaxDraw} ELSE 0..(MaxDraw - 1)

Min(a, b) == IF a < b THEN a ELSE b

(* What the model's generate returns (lines 272-333). *)
ModelOutputs(eng, a) ==
    CASE eng.kind = "hf" ->
           {[kind |-> "sampled", draw |-> d, dim |-> 2,
             nsamples |-> Min(a.duration * 50, 1024) * 640] :
                d \in SampleDraws(a.seed)}
      [] eng.kind = "audiocraft" ->
           {[kind |-> "sampled", draw |-> d, dim |-> 2,
             nsamples |-> a.duration * eng.sample_rate] :
                d \in SampleDraws(a.seed)}
      [] OTHER ->
           {[kind |-> "sine", draw |-> 0, dim |-> 2,
             nsamples |-> a.duration * eng.sample_rate]}

(* The fallback of lines 335-339: silence of the requested length. *)
Silence(eng, a) ==
    [kind |-> "silence", draw |-> 0, dim |-> 2,
     nsamples |-> a.duration * eng.sample_rate]

(* MusicGenEngine._generate_audio, as the set of its outcomes: the model's
   output, silence when generation raised inside the try block, or an
   exception that escapes the function. *)
_generate_audio(eng, a) ==
    {[ok |-> TRUE, tensor |-> Some(t), error |-> None] :
        t \in ModelOutputs(eng, a) \cup {Silence(eng, a)}}
    \cup {[ok |-> FALSE, tensor |-> None, error |-> Some("generation error")]}

(* MusicGenEngine._save_audio_sync: torchaudio.save writes header and
   samples; nothing else enters the file. *)
_save_audio_sync(tensor, sample_rate) ==
    <<"RIFF", 1, sample_rate, tensor.nsamples, tensor.kind, tensor.draw>>

st_size(bytes) == 44 + 4 * bytes[2] * bytes[4]

----------------------------------------------------------------------------
(* The service: generation_service.py *)

(* The service's check with one minute as the longest duration. *)
_validate_generation_params_OneMinute(a) ==
    IF a.prompt = <<>> \/ strip(a.prompt) = <<>>
        THEN Some("Prompt cannot be empty")
    ELSE IF a.duration <= 0 \/ a.duration > 60
        THEN Some("Duration must be between 0 and 300 seconds")
    ELSE IF a.temperature <= 0 \/ a.temperature > 50
        THEN Some("Temperature must be between 0 and 5")
    ELSE IF a.top_k < 1 \/ a.top_k > 2000
        THEN Some("top_k must be between 1 and 2000")
    ELSE IF a.top_p < 0 \/ a.top_p > 100
        THEN Some("top_p must be between 0 and 1")
    ELSE IF a.cfg_coef < 0 \/ a.cfg_coef > 200
        THEN Some("cfg_coef must be between 0 and 20")
    ELSE None

(* GenerationService._validate_generation_params: the message of the
   ValueError it raises, or None. *)
_validate_generation_params(a) ==
    IF a.prompt = <<>> \/ strip(a.prompt) = <<>>
        THEN Some("Prompt cannot be empty")
    ELSE IF a.duration <= 0 \/ a.duration > 300
        THEN Some("Duration must be between 0 and 300 seconds")
    ELSE IF a.temperature <= 0 \/ a.temperature > 50
        THEN Some("Temperature must be between 0 and 5")
    ELSE IF a.top_k < 1 \/ a.top_k > 2000
        THEN Some("top_k must be between 1 and 2000")
    ELSE IF a.top_p < 0 \/ a.top_p > 100
        THEN Some("top_p must be between 0 and 1")
    ELSE IF a.cfg_coef < 0 \/ a.cfg_coef > 200
        THEN Some("cfg_coef must be between 0 and 20")
    ELSE None

(* The arguments process_generation_job passes to
   GenerationService.generate_music (generation.py:287-295). *)
ServiceArgs(request) ==
    [prompt |-> request.prompt, duration |-> request.duration,
     temperature |-> request.temperature, top_k |-> request.top_k,
     top_p |-> request.top_p, cfg_coef |-> request.cfg_coef]

(* The arguments GenerationService.generate_music passes to
   MusicGenEngine.generate_music (generation_service.py:71-79); seed is the
   engine's default. *)
EngineArgs(sa) ==
    [prompt |-> sa.prompt, duration |-> sa.duration,
     temperature |-> sa.temperature, top_k |-> sa.top_k,
     top_p |-> sa.top_p, cfg_coef |-> sa.cfg_coef, seed |-> None]

(* The output check of generation_service.py:82-83. *)
OutputError(tensor) ==
    IF tensor = None \/ tensor.dim = 0
        THEN Some("Generated audio tensor is empty") ELSE None

----------------------------------------------------------------------------
(* Job records and background tasks: generation.py *)

Terminal == {COMPLETED, FAILED, CANCELLED}

(* The identifier not random: every submission gets the first one. *)
uuid4_Same(used) == {id \in JobIds : \A other \in JobIds : id <= other}

(* generation.py:48: a fresh random identifier.  Identifiers carry no
   meaning, so the model issues them in order. *)
uuid4(used) == {id \in JobIds \ used : \A other \in JobIds \ used : id <= other}

(* The record created with the progress of a started job. *)
job_data_Started(job_id, request, now) ==
    [job_id |-> job_id, status |-> QUEUED, prompt |-> request.prompt,
     duration |-> request.duration, temperature |-> request.temperature,
     top_k |-> request.top_k, top_p |-> request.top_p,
     cfg_coef |-> request.cfg_coef, created_at |-> now, progress |-> 1000,
     message |-> <<"Job queued for processing">>,
     started_at |-> None, completed_at |-> None, error_message |-> None,
     audio_path |-> None, audio_url |-> None, file_size |-> None,
     actual_duration |-> None]

(* generation.py:59-71 *)
job_data(job_id, request, now) ==
    [job_id |-> job_id, status |-> QUEUED, prompt |-> request.prompt,
     duration |-> request.duration, temperature |-> request.temperature,
     top_k |-> request.top_k, top_p |-> request.top_p,
     cfg_coef |-> request.cfg_coef, created_at |-> now, progress |-> 0,
     message |-> <<"Job queued for processing">>,
     started_at |-> None, completed_at |-> None, error_message |-> None,
     audio_path |-> None, audio_url |-> None, file_size |-> None,
     actual_duration |-> None]

(* The job recorded without add_task: no task will run for it. *)
NewTask_NotAdded(request) ==
    [pc |-> "done", request |-> request, eargs |-> None,
     reporter |-> "none", i |-> 0, tensor |-> None]

(* The task BackgroundTasks holds for a job: where it is suspended, and the
   locals it keeps. *)
NewTask(request) ==
    [pc |-> "scheduled", request |-> request, eargs |-> None,
     reporter |-> "none", i |-> 0, tensor |-> None]

(* The dispatch update writing the start time into created_at as well. *)
MarkProcessing_CreatedAt(jd, now) ==
    [jd EXCEPT !.status = PROCESSING, !.started_at = Some(now),
               !.created_at = now,
               !.message = <<"AI model processing prompt...">>,
               !.progress = 3000]

(* generation.py:263-276: the two updates run without a suspension between
   them. *)
MarkProcessing(jd, now) ==
    [jd EXCEPT !.status = PROCESSING, !.started_at = Some(now),
               !.message = <<"AI model processing prompt...">>,
               !.progress = 3000]

(* generation.py:279-281: update_progress. *)
update_progress(jd, progress) ==
    [jd EXCEPT !.progress = progress,
               !.message = <<"AI generating music...", progress \div 100>>]

(* The updates running from end_progress down. *)
ProgressValue_Falling(i) ==
    end_progress - ((end_progress - start_progress) * (i + 1)) \div steps

(* The updates counted from 0: the first one repeats start_progress. *)
ProgressValue_FromZero(i) ==
    start_progress + ((end_progress - start_progress) * i) \div steps

(* musicgen_engine.py:229-232: the value of the i-th update (i from 0). *)
ProgressValue(i) ==
    start_progress + ((end_progress - start_progress) * (i + 1)) \div steps

(* musicgen_engine.py:189-192: the progress simulation task is created. *)
start_progress_task(t) == [t EXCEPT !.reporter = "running", !.i = 0]

(* The finally block left out: the progress simulation task runs on. *)
cancel_progress_task_Skipped(t) == t

(* musicgen_engine.py:206-213: the progress simulation task is cancelled and
   awaited; its frame is gone. *)
cancel_progress_task(t) == [t EXCEPT !.reporter = "cancelled", !.i = 0]

(* The update before the save reporting 1.0. *)
MarkSaving_Full(jd) ==
    [jd EXCEPT !.progress = 10000, !.message = <<"Saving audio file...">>]

(* generation.py:300-301 *)
MarkSaving(jd) ==
    [jd EXCEPT !.progress = 8000, !.message = <<"Saving audio file...">>]

(* generation.py:306 *)
AudioPath(job_id) == <<"generated_audio", job_id, ".wav">>

(* The completed update without its completed_at line. *)
MarkCompleted_NoCompletedAt(jd, job_id, bytes, tensor, sample_rate, now) ==
    [jd EXCEPT !.status = COMPLETED,
               !.message = <<"Generation completed successfully">>,
               !.progress = 10000,
               !.audio_path = Some(AudioPath(job_id)),
               !.audio_url = Some(<<"/api/v1/download/", job_id>>),
               !.file_size = Some(st_size(bytes)),
               !.actual_duration =
                   Some((tensor.nsamples * 1000) \div sample_rate)]

(* generation.py:311-330 *)
MarkCompleted(jd, job_id, bytes, tensor, sample_rate, now) ==
    [jd EXCEPT !.status = COMPLETED, !.completed_at = Some(now),
               !.message = <<"Generation completed successfully">>,
               !.progress = 10000,
               !.audio_path = Some(AudioPath(job_id)),
               !.audio_url = Some(<<"/api/v1/download/", job_id>>),
               !.file_size = Some(st_size(bytes)),
               !.actual_duration =
                   Some((tensor.nsamples * 1000) \div sample_rate)]

(* The except branch without its status line. *)
MarkFailed_StatusKept(jd, error, now) ==
    [jd EXCEPT !.completed_at = Some(now),
               !.message = <<"Generation failed">>,
               !.error_message = error, !.progress = 0]

(* The except branch without its error_message line. *)
MarkFailed_NoErrorMessage(jd, error, now) ==
    [jd EXCEPT !.status = FAILED, !.completed_at = Some(now),
               !.message = <<"Generation failed">>, !.progress = 0]

(* The except branch without its progress line. *)
MarkFailed_ProgressKept(jd, error, now) ==
    [jd EXCEPT !.status = FAILED, !.completed_at = Some(now),
               !.message = <<"Generation failed">>,
               !.error_message = error]

(* generation.py:334-344: the except branch. *)
MarkFailed(jd, error, now) ==
    [jd EXCEPT !.status = FAILED, !.completed_at = Some(now),
               !.message = <<"Generation failed">>,
               !.error_message = error, !.progress = 0]

(* No status is refused. *)
CancelRefused_Nothing == {}

(* The refusal tests completed only. *)
CancelRefused_CompletedOnly == {COMPLETED}

(* generation.py:206: the statuses cancel_generation_job refuses. *)
CancelRefused == {COMPLETED, FAILED}

(* The cancel writing its message as an error. *)
MarkCancelled_WithError(jd, now) ==
    [jd EXCEPT !.status = CANCELLED,
               !.message = <<"Job cancelled by user">>,
               !.error_message = Some("Job cancelled by user"),
               !.completed_at = Some(now)]

(* The update without its completed_at line. *)
MarkCancelled_NoCompletedAt(jd, now) ==
    [jd EXCEPT !.status = CANCELLED,
               !.message = <<"Job cancelled by user">>]

(* generation.py:213-215 *)
MarkCancelled(jd, now) ==
    [jd EXCEPT !.status = CANCELLED,
               !.message = <<"Job cancelled by user">>,
               !.completed_at = Some(now)]

(* generation.py:105-119: GenerationStatusResponse. *)
StatusResponse(jd) ==
    [job_id |-> jd.job_id, status |-> jd.status, progress |-> jd.progress,
     message |-> jd.message, created_at |-> jd.created_at,
     started_at |-> jd.started_at, completed_at |-> jd.completed_at,
     error_message |-> jd.error_message, prompt |-> jd.prompt,
     duration |-> jd.duration, audio_url |-> jd.audio_url,
     file_size |-> jd.file_size, actual_duration |-> jd.actual_duration]

Response(op, job_id, code, body) ==
    [op |-> op, job_id |-> job_id, code |-> code, body |-> body]

----------------------------------------------------------------------------
(* The state after construction *)

NoResp == Response("none", None, 0, None)

Init ==
    /\ jobs = <<>>
    /\ tasks = <<>>
    /\ files = <<>>
    /\ clock = 0
    /\ resp = NoResp
    /\ engine \in {initialize(kind) : kind \in EngineKinds}

(* datetime.utcnow(): a time not before the last one read. *)
utcnow == clock..MaxClock

----------------------------------------------------------------------------
(* Request handlers *)

(* POST /generate with a body the request model rejects: the handler is
   never entered. *)
SubmitInvalid(raw) ==
    /\ ~RequestValid(raw)
    /\ resp' = Response("generate", None, 422, None)
    /\ UNCHANGED <<jobs, tasks, files, clock, engine>>

(* POST /generate: generate_music (generation.py:35-90). *)
Submit(raw) ==
    /\ RequestValid(raw)
    /\ Cardinality(DOMAIN jobs) < MaxJobs
    /\ \E job_id \in uuid4(DOMAIN jobs), now \in utcnow :
          LET request == GenerationRequest(raw)
              jd == job_data(job_id, request, now)
          IN  /\ clock' = now
              /\ jobs' = (job_id :> jd) @@ jobs
              /\ tasks' = (job_id :> NewTask(request)) @@ tasks
              /\ resp' = Response("generate", Some(job_id), 200,
                                  [job_id |-> job_id, status |-> QUEUED,
                                   message |-> <<"Generation job started">>,
                                   created_at |-> jd.created_at])
    /\ UNCHANGED <<files, engine>>

(* get_generation_status (generation.py:93-119) on the registry js. *)
get_generation_status(js, job_id) ==
    IF job_id \notin DOMAIN js
      THEN Response("status", Some(job_id), 404, None)
      ELSE Response("status", Some(job_id), 200, StatusResponse(js[job_id]))

(* The status query held back while an inference call is in flight. *)
GetStatus_AfterInference(job_id) ==
    /\ \A j \in DOMAIN tasks : tasks[j].pc # "inference"
    /\ resp' = get_generation_status(jobs, job_id)
    /\ UNCHANGED <<jobs, tasks, files, clock, engine>>

(* GET /status/{job_id} *)
GetStatus(job_id) ==
    /\ resp' = get_generation_status(jobs, job_id)
    /\ UNCHANGED <<jobs, tasks, files, clock, engine>>

(* The download refusing an unknown id as it refuses an unfinished job. *)
download_generated_audio_Unknown400(js, fs, job_id) ==
    IF job_id \notin DOMAIN js \/ js[job_id].status # COMPLETED
      THEN Response("download", Some(job_id), 400, None)
    ELSE IF ~IsSet(js[job_id].audio_path) \/ job_id \notin DOMAIN fs
      THEN Response("download", Some(job_id), 404, None)
    ELSE Response("download", Some(job_id), 200, fs[job_id])

(* The download answering an unfinished job as it answers a missing file. *)
download_generated_audio_NotCompleted404(js, fs, job_id) ==
    IF job_id \notin DOMAIN js
      THEN Response("download", Some(job_id), 404, None)
    ELSE IF js[job_id].status # COMPLETED
      THEN Response("download", Some(job_id), 404, None)
    ELSE IF ~IsSet(js[job_id].audio_path) \/ job_id \notin DOMAIN fs
      THEN Response("download", Some(job_id), 404, None)
    ELSE Response("download", Some(job_id), 200, fs[job_id])

(* download_generated_audio (generation.py:122-148) on the registry js and
   the files fs. *)
download_generated_audio(js, fs, job_id) ==
    IF job_id \notin DOMAIN js
      THEN Response("download", Some(job_id), 404, None)
    ELSE IF js[job_id].status # COMPLETED
      THEN Response("download", Some(job_id), 400, None)
    ELSE IF ~IsSet(js[job_id].audio_path) \/ job_id \notin DOMAIN fs
      THEN Response("download", Some(job_id), 404, None)
    ELSE Response("download", Some(job_id), 200, fs[job_id])

(* GET /download/{job_id} *)
Download(job_id) ==
    /\ resp' = download_generated_audio(jobs, files, job_id)
    /\ UNCHANGED <<jobs, tasks, files, clock, engine>>

(* The cancel request removing the record instead of marking it. *)
Cancel_Removes(job_id) ==
    /\ IF job_id \notin DOMAIN jobs
         THEN /\ resp' = Response("cancel", Some(job_id), 404, None)
              /\ UNCHANGED <<jobs, clock>>
       ELSE IF jobs[job_id].status \in CancelRefused
         THEN /\ resp' = Response("cancel", Some(job_id), 400, None)
              /\ UNCHANGED <<jobs, clock>>
       ELSE \E now \in utcnow :
              /\ clock' = now
              /\ jobs' = [k \in DOMAIN jobs \ {job_id} |-> jobs[k]]
              /\ resp' = Response("cancel", Some(job_id), 200, None)
    /\ UNCHANGED <<tasks, files, engine>>

(* DELETE /jobs/{job_id}: cancel_generation_job (generation.py:194-219). *)
Cancel(job_id) ==
    /\ IF job_id \notin DOMAIN jobs
         THEN /\ resp' = Response("cancel", Some(job_id), 404, None)
              /\ UNCHANGED <<jobs, clock>>
       ELSE IF jobs[job_id].status \in CancelRefused
         THEN /\ resp' = Response("cancel", Some(job_id), 400, None)
              /\ UNCHANGED <<jobs, clock>>
       ELSE \E now \in utcnow :
              /\ clock' = now
              /\ jobs' = [jobs EXCEPT ![job_id] = MarkCancelled(@, now)]
              /\ resp' = Response("cancel", Some(job_id), 200, None)
    /\ UNCHANGED <<tasks, files, engine>>

(* generation.py:234-240: the entry of a job in the listing; a prompt of
   more than 100 characters is cut and marked. *)
JobSummary(jd) ==
    [job_id |-> jd.job_id, status |-> jd.status,
     prompt |-> IF Len(jd.prompt) > 100
                  THEN SubSeq(jd.prompt, 1, 100) \o <<".", ".", ".">>
                  ELSE jd.prompt,
     created_at |-> jd.created_at, duration |-> Some(jd.duration)]

(* generation.py:229-240: the entries of the jobs that pass the filter, in
   the order of jobs.values(), the order of insertion; ids are issued in
   order.  A status of None, or an empty one, filters nothing. *)
RECURSIVE filtered_jobs(_, _, _)
filtered_jobs(js, status, n) ==
    IF n = 0 THEN <<>>
    ELSE LET before == filtered_jobs(js, status, n - 1)
         IN  IF n \notin DOMAIN js THEN before
             ELSE IF IsSet(status) /\ status[1] # ""
                       /\ js[n].status # status[1] THEN before
             ELSE Append(before, JobSummary(js[n]))

(* generation.py:243: list.sort by created_at, reverse=True.  The sort is
   stable: an entry goes behind every entry that is as new or newer, so
   entries of one created_at keep the order they came in. *)
RECURSIVE insert_sorted(_, _)
insert_sorted(x, rest) ==
    IF rest = <<>> THEN <<x>>
    ELSE IF Head(rest).created_at >= x.created_at
        THEN <<Head(rest)>> \o insert_sorted(x, Tail(rest))
    ELSE <<x>> \o rest

RECURSIVE sort_newest_first(_)
sort_newest_first(seq) ==
    IF seq = <<>> THEN <<>>
    ELSE insert_sorted(seq[Len(seq)],
                       sort_newest_first(SubSeq(seq, 1, Len(seq) - 1)))

(* generation.py:246: seq[:limit], a negative limit counting from the end. *)
SliceTo(seq, limit) ==
    IF limit >= Len(seq) THEN seq
    ELSE IF limit >= 0 THEN SubSeq(seq, 1, limit)
    ELSE IF Len(seq) + limit > 0 THEN SubSeq(seq, 1, Len(seq) + limit)
    ELSE <<>>

(* list_jobs (generation.py:222-248) on the registry js. *)
list_jobs(js, limit, status) ==
    LET sorted == sort_newest_first(filtered_jobs(js, status, MaxJobs))
    IN  Response("list", None, 200,
                 [jobs |-> SliceTo(sorted, limit), total |-> Len(sorted)])

(* The query parameters clients send in the model: the defaults, and both
   changed. *)
ListQueries == {<<50, None>>, <<1, Some(PROCESSING)>>}

(* GET /jobs *)
ListJobs(limit, status) ==
    /\ resp' = list_jobs(jobs, limit, status)
    /\ UNCHANGED <<jobs, tasks, files, clock, engine>>

----------------------------------------------------------------------------
(* The background task: process_generation_job (generation.py:251-344) *)

(* From the start of the task to its first suspension, inside
   MusicGenEngine.generate_music at the await of run_in_executor
   (musicgen_engine.py:195); or to its end, when the service's parameter
   check raises. *)
BgStart(job_id) ==
    /\ job_id \in DOMAIN tasks
    /\ tasks[job_id].pc = "scheduled"
    /\ \E now \in utcnow :
         LET t == tasks[job_id]
             jd == MarkProcessing(jobs[job_id], now)
             sa == ServiceArgs(t.request)
             err == _validate_generation_params(sa)
         IN  IF IsSet(err)
               THEN /\ jobs' = [jobs EXCEPT ![job_id] = MarkFailed(jd, err, now)]
                    /\ tasks' = [tasks EXCEPT ![job_id].pc = "done"]
                    /\ clock' = now
               ELSE /\ jobs' = [jobs EXCEPT ![job_id] = jd]
                    /\ tasks' = [tasks EXCEPT ![job_id] =
                          [start_progress_task(t) EXCEPT
                              !.pc = "inference", !.eargs = Some(EngineArgs(sa))]]
                    /\ clock' = now
    /\ resp' = NoResp
    /\ UNCHANGED <<files, engine>>

(* The callback writing the reported value into every record instead of
   the record of its own job. *)
ProgressStep_EveryJob(job_id) ==
    /\ job_id \in DOMAIN tasks
    /\ tasks[job_id].reporter = "running"
    /\ tasks[job_id].i < steps
    /\ tasks[job_id].i < MaxReports
    /\ jobs' = [k \in DOMAIN jobs |->
                  update_progress(jobs[k], ProgressValue(tasks[job_id].i))]
    /\ tasks' = [tasks EXCEPT ![job_id].i = @ + 1]
    /\ resp' = NoResp
    /\ UNCHANGED <<files, clock, engine>>

(* One iteration of _simulate_progress (musicgen_engine.py:229-232): the
   sleep is over and the callback runs. *)
ProgressStep(job_id) ==
    /\ job_id \in DOMAIN tasks
    /\ tasks[job_id].reporter = "running"
    /\ tasks[job_id].i < steps
    /\ tasks[job_id].i < MaxReports
    /\ jobs' = [jobs EXCEPT ![job_id] =
                  update_progress(@, ProgressValue(tasks[job_id].i))]
    /\ tasks' = [tasks EXCEPT ![job_id].i = @ + 1]
    /\ resp' = NoResp
    /\ UNCHANGED <<files, clock, engine>>

(* One iteration of _simulate_progress (musicgen_engine.py:229-232) with
   all the iterations of the loop allowed, up to range(steps). *)
ProgressStepAll(job_id) ==
    /\ job_id \in DOMAIN tasks
    /\ tasks[job_id].reporter = "running"
    /\ tasks[job_id].i < steps
    /\ jobs' = [jobs EXCEPT ![job_id] =
                  update_progress(@, ProgressValue(tasks[job_id].i))]
    /\ tasks' = [tasks EXCEPT ![job_id].i = @ + 1]
    /\ resp' = NoResp
    /\ UNCHANGED <<files, clock, engine>>

(* The task put back at its start when the generation fails, so that it
   runs and calls the engine again. *)
InferenceResolve_Retry(job_id) ==
    /\ job_id \in DOMAIN tasks
    /\ tasks[job_id].pc = "inference"
    /\ \E out \in _generate_audio(engine, tasks[job_id].eargs[1]) :
          LET t == cancel_progress_task(tasks[job_id])
              err == IF out.ok THEN OutputError(out.tensor[1]) ELSE out.error
          IN  IF IsSet(err)
                THEN \E now \in utcnow :
                     /\ jobs' = [jobs EXCEPT ![job_id] = MarkFailed(@, err, now)]
                     /\ tasks' = [tasks EXCEPT ![job_id] = [t EXCEPT !.pc = "scheduled"]]
                     /\ clock' = now
                ELSE /\ jobs' = [jobs EXCEPT ![job_id] = MarkSaving(@)]
                     /\ tasks' = [tasks EXCEPT ![job_id] =
                           [t EXCEPT !.pc = "saving", !.tensor = out.tensor]]
                     /\ clock' = clock
    /\ resp' = NoResp
    /\ UNCHANGED <<files, engine>>

(* The executor call of _generate_audio is over and generate_music resumes:
   the finally block stops the progress task, the service checks the output,
   and process_generation_job runs on to the await of save_audio
   (generation.py:297-308), or to the end of its except branch. *)
InferenceResolve(job_id) ==
    /\ job_id \in DOMAIN tasks
    /\ tasks[job_id].pc = "inference"
    /\ \E out \in _generate_audio(engine, tasks[job_id].eargs[1]) :
          LET t == cancel_progress_task(tasks[job_id])
              err == IF out.ok THEN OutputError(out.tensor[1]) ELSE out.error
          IN  IF IsSet(err)
                THEN \E now \in utcnow :
                     /\ jobs' = [jobs EXCEPT ![job_id] = MarkFailed(@, err, now)]
                     /\ tasks' = [tasks EXCEPT ![job_id] = [t EXCEPT !.pc = "done"]]
                     /\ clock' = now
                ELSE /\ jobs' = [jobs EXCEPT ![job_id] = MarkSaving(@)]
                     /\ tasks' = [tasks EXCEPT ![job_id] =
                           [t EXCEPT !.pc = "saving", !.tensor = out.tensor]]
                     /\ clock' = clock
    /\ resp' = NoResp
    /\ UNCHANGED <<files, engine>>

(* The save step with one output path for all jobs instead of a path
   built from the job id. *)
SaveResolve_SharedPath(job_id) ==
    /\ job_id \in DOMAIN tasks
    /\ tasks[job_id].pc = "saving"
    /\ \E saved \in BOOLEAN, now \in utcnow :
          LET tensor == tasks[job_id].tensor[1]
              bytes == _save_audio_sync(tensor, engine.sample_rate)
          IN  /\ clock' = now
              /\ IF saved
                   THEN /\ files' = (1 :> bytes) @@ files
                        /\ jobs' = [jobs EXCEPT ![job_id] =
                              MarkCompleted(@, job_id, bytes, tensor,
                                            engine.sample_rate, now)]
                   ELSE /\ files' = files
                        /\ jobs' = [jobs EXCEPT ![job_id] =
                              MarkFailed(@, Some("save error"), now)]
    /\ tasks' = [tasks EXCEPT ![job_id] = [@ EXCEPT !.pc = "done", !.tensor = None]]
    /\ resp' = NoResp
    /\ UNCHANGED engine

(* The executor call of _save_audio_sync is over and process_generation_job
   resumes (generation.py:308-344): the file is there and the job is
   completed, or the save raised and the job is failed. *)
SaveResolve(job_id) ==
    /\ job_id \in DOMAIN tasks
    /\ tasks[job_id].pc = "saving"
    /\ \E saved \in BOOLEAN, now \in utcnow :
          LET tensor == tasks[job_id].tensor[1]
              bytes == _save_audio_sync(tensor, engine.sample_rate)
          IN  /\ clock' = now
              /\ IF saved
                   THEN /\ files' = (job_id :> bytes) @@ files
                        /\ jobs' = [jobs EXCEPT ![job_id] =
                              MarkCompleted(@, job_id, bytes, tensor,
                                            engine.sample_rate, now)]
                   ELSE /\ files' = files
                        /\ jobs' = [jobs EXCEPT ![job_id] =
                              MarkFailed(@, Some("save error"), now)]
    /\ tasks' = [tasks EXCEPT ![job_id] = [@ EXCEPT !.pc = "done", !.tensor = None]]
    /\ resp' = NoResp
    /\ UNCHANGED engine

----------------------------------------------------------------------------

Next ==
    \/ \E raw \in RawRequests : SubmitInvalid(raw)
    \/ \E raw \in RawRequests : Submit(raw)
    \/ \E job_id \in JobIds : GetStatus(job_id)
    \/ \E job_id \in JobIds : Download(job_id)
    \/ \E job_id \in JobIds : Cancel(job_id)
    \/ \E q \in ListQueries : ListJobs(q[1], q[2])
    \/ \E job_id \in JobIds : BgStart(job_id)
    \/ \E job_id \in JobIds : ProgressStep(job_id)
    \/ \E job_id \in JobIds : InferenceResolve(job_id)
    \/ \E job_id \in JobIds : SaveResolve(job_id)

Spec == Init /\ [][Next]_vars

(* The listing under every kind of query: limits below, at and above the
   number of jobs; no status, an empty one, statuses jobs take and a string
   that is no status.  The clients of this specification submit, cancel and
   list; the progress simulation is left asleep. *)
ListLimits == {-1, 0, 1, 50}

ListFilters ==
    {None, Some(""), Some(QUEUED), Some(PROCESSING), Some(COMPLETED),
     Some("bogus")}

ListNext ==
    \/ \E raw \in RawRequests : Submit(raw)
    \/ \E job_id \in JobIds : Cancel(job_id)
    \/ \E limit \in ListLimits, status \in ListFilters :
          ListJobs(limit, status)
    \/ \E job_id \in JobIds : BgStart(job_id)
    \/ \E job_id \in JobIds : InferenceResolve(job_id)
    \/ \E job_id \in JobIds : SaveResolve(job_id)

ListSpec == Init /\ [][ListNext]_vars

(* The service started when the clock already reads MaxClock: every
   timestamp of the run is the same. *)
InitLate ==
    /\ jobs = <<>>
    /\ tasks = <<>>
    /\ files = <<>>
    /\ clock = MaxClock
    /\ resp = NoResp
    /\ engine \in {initialize(kind) : kind \in EngineKinds}

LateSpec == InitLate /\ [][Next]_vars

(* The submissions and the background tasks up to the end of the generation
   call, with the whole loop of the progress simulation. *)
ReporterNext ==
    \/ \E raw \in RawRequests : Submit(raw)
    \/ \E job_id \in JobIds : BgStart(job_id)
    \/ \E job_id \in JobIds : ProgressStepAll(job_id)
    \/ \E job_id \in JobIds : InferenceResolve(job_id)

ReporterSpec == InitLate /\ [][ReporterNext]_vars

(* Request bodies at and around the limits of both validations: the
   defaults with one field moved to a limit of the request model, to the
   value next outside it, or outside the service's range; and the bodies
   with every field at its lowest and at its highest accepted value. *)
BoundaryRequests ==
    LET d == Body(<<"a">>, 30, None)
    IN  {[d EXCEPT !.prompt = v] : v \in {<<"a">>, <<" ", "a", " ">>, <<" ">>, <<>>}}
        \cup {[d EXCEPT !.duration = v] : v \in {0, 4, 5, 120, 121, 301}}
        \cup {[d EXCEPT !.temperature = v] : v \in {0, 1, 20, 21, 51}}
        \cup {[d EXCEPT !.top_k = v] : v \in {0, 1, 1000, 1001, 2001}}
        \cup {[d EXCEPT !.top_p = v] : v \in {-1, 0, 100, 101}}
        \cup {[d EXCEPT !.cfg_coef = v] : v \in {-1, 9, 10, 100, 101, 201}}
        \cup {[d EXCEPT !.prompt = <<"a">>, !.duration = 5, !.temperature = 1,
                        !.top_k = 1, !.top_p = 0, !.cfg_coef = 10],
              [d EXCEPT !.duration = 120, !.temperature = 20,
                        !.top_k = 1000, !.top_p = 100, !.cfg_coef = 100]}

(* Submissions of these bodies and the background tasks up to the end of
   the generation call. *)
ValidationNext ==
    \/ \E raw \in BoundaryRequests : SubmitInvalid(raw)
    \/ \E raw \in BoundaryRequests : Submit(raw)
    \/ \E job_id \in JobIds : BgStart(job_id)
    \/ \E job_id \in JobIds : InferenceResolve(job_id)

ValidationSpec == InitLate /\ [][ValidationNext]_vars

----------------------------------------------------------------------------
(* The engine under concurrent calls: musicgen_engine.py.  The calls of
   MusicGenEngine.generate_music and MusicGenEngine.initialize are the
   tasks; engine carries, besides the object's fields, the number of model
   loads begun and the state of the process-wide random generators, given
   as the next value they draw. *)

CallIds == 1..MaxCalls

(* musicgen_engine.py:45-56: the engine as constructed, not initialized. *)
NewEngine(kind, rng) ==
    [kind |-> kind, sample_rate |-> 32000, is_initialized |-> FALSE,
     loads |-> 0, rng |-> rng]

(* The seeds the calls are made with. *)
EngineSeeds == {None, Some(12345), Some(12346)}

(* musicgen_engine.py:153-162: the arguments of a call, the defaults of the
   signature but for the prompt and the seed. *)
CallArgs(seed) ==
    [prompt |-> <<"a">>, duration |-> 30, temperature |-> 10, top_k |-> 250,
     top_p |-> 0, cfg_coef |-> 30, seed |-> seed]

EngineInit ==
    /\ jobs = <<>>
    /\ tasks = <<>>
    /\ files = <<>>
    /\ clock = 0
    /\ resp = NoResp
    /\ engine \in {NewEngine(kind, rng) :
                      kind \in EngineKinds, rng \in 0..(MaxDraw - 1)}

(* A coroutine calls generate_music or initialize; it has not run yet. *)
EngineCall(c, op, seed) ==
    /\ c \in CallIds \ DOMAIN tasks
    /\ \A other \in CallIds \ DOMAIN tasks : c <= other
    /\ tasks' = (c :> [pc |-> "called", op |-> op,
                       eargs |-> Some(CallArgs(seed)), out |-> None]) @@ tasks
    /\ UNCHANGED <<jobs, files, clock, resp, engine>>

(* musicgen_engine.py:81-86: the end of initialize. *)
Loaded(eng) ==
    [eng EXCEPT !.sample_rate = initialize(eng.kind).sample_rate,
                !.is_initialized = TRUE]

(* Where a call stands once the engine is initialized for it: initialize
   returns, generate_music hands _generate_audio to the executor
   (musicgen_engine.py:194-205). *)
AfterInitialize(op) == IF op = "initialize" THEN "done" ELSE "submitted"

(* The call runs to its first suspension.  generate_music enters initialize
   when is_initialized is false (179-180) and initialize returns at once
   when it is true (62-63); otherwise the load begins: in the executor,
   awaited, for a real model (65-82), on the spot for the mock (83-87). *)
EngineCallStart(c) ==
    /\ c \in DOMAIN tasks
    /\ tasks[c].pc = "called"
    /\ IF engine.is_initialized
         THEN /\ tasks' = [tasks EXCEPT ![c].pc = AfterInitialize(tasks[c].op)]
              /\ engine' = engine
       ELSE IF engine.kind = "mock"
         THEN /\ tasks' = [tasks EXCEPT ![c].pc = AfterInitialize(tasks[c].op)]
              /\ engine' = Loaded([engine EXCEPT !.loads = @ + 1])
       ELSE /\ tasks' = [tasks EXCEPT ![c].pc = "loading"]
            /\ engine' = [engine EXCEPT !.loads = @ + 1]
    /\ UNCHANGED <<jobs, files, clock, resp>>

(* The executor's load is over and initialize resumes (69-89). *)
EngineLoadResolve(c) ==
    /\ c \in DOMAIN tasks
    /\ tasks[c].pc = "loading"
    /\ engine' = Loaded(engine)
    /\ tasks' = [tasks EXCEPT ![c].pc = AfterInitialize(tasks[c].op)]
    /\ UNCHANGED <<jobs, files, clock, resp>>

(* musicgen_engine.py:243-268, in an executor thread: a seed given is set
   on the process-wide generators. *)
ExecutorSeed(c) ==
    /\ c \in DOMAIN tasks
    /\ tasks[c].pc = "submitted"
    /\ LET seed == tasks[c].eargs[1].seed
       IN  engine' = IF IsSet(seed)
                       THEN [engine EXCEPT !.rng = seed[1] % MaxDraw]
                       ELSE engine
    /\ tasks' = [tasks EXCEPT ![c].pc = "seeded"]
    /\ UNCHANGED <<jobs, files, clock, resp>>

(* What the model's generate returns when the generators stand at rng. *)
ModelOutputsAt(eng, a, rng) ==
    {[t EXCEPT !.draw = IF t.kind = "sampled" THEN rng ELSE t.draw] :
        t \in ModelOutputs(eng, [a EXCEPT !.seed = None])}

(* musicgen_engine.py:270-339, in an executor thread: the model samples
   from the process-wide generators, which move on; or generation raises
   and silence is returned. *)
ExecutorSample(c) ==
    /\ c \in DOMAIN tasks
    /\ tasks[c].pc = "seeded"
    /\ \E t \in ModelOutputsAt(engine, tasks[c].eargs[1], engine.rng)
                  \cup {Silence(engine, tasks[c].eargs[1])} :
          /\ tasks' = [tasks EXCEPT ![c].pc = "done", ![c].out = Some(t)]
          /\ engine' = IF t.kind = "sampled"
                         THEN [engine EXCEPT !.rng = (@ + 1) % MaxDraw]
                         ELSE engine
    /\ UNCHANGED <<jobs, files, clock, resp>>

EngineNext ==
    \/ \E c \in CallIds, seed \in EngineSeeds : EngineCall(c, "generate", seed)
    \/ \E c \in CallIds : EngineCall(c, "initialize", None)
    \/ \E c \in CallIds : EngineCallStart(c)
    \/ \E c \in CallIds : EngineLoadResolve(c)
    \/ \E c \in CallIds : ExecutorSeed(c)
    \/ \E c \in CallIds : ExecutorSample(c)

EngineSpec == EngineInit /\ [][EngineNext]_vars

(* The event loop runs every task that is ready: a background task that was
   added starts (BackgroundTasks runs it once the response is sent), and a
   coroutine whose executor call is over is resumed.  The executor calls
   themselves are taken to return.  Nothing is assumed of the clients, nor
   of the sleeps of the progress simulation. *)
Fairness ==
    \A job_id \in JobIds :
        /\ WF_vars(BgStart(job_id))
        /\ WF_vars(InferenceResolve(job_id))
        /\ WF_vars(SaveResolve(job_id))

FairSpec == InitLate /\ [][Next]_vars /\ Fairness

----------------------------------------------------------------------------
(* Properties *)

HasResult(jd) ==
    \/ IsSet(jd.audio_url) \/ IsSet(jd.audio_path)
    \/ IsSet(jd.file_size) \/ IsSet(jd.actual_duration)

(* The step is the handling of DELETE /jobs/{job_id}. *)
CancelStep(job_id) == resp'.op = "cancel" /\ resp'.job_id = Some(job_id)

(* The step is a callback of job_id's progress simulation task. *)
ReporterStep(job_id) ==
    /\ job_id \in DOMAIN tasks
    /\ tasks'[job_id].i = tasks[job_id].i + 1

(* The job was cancelled while its inference call was in flight: the call is
   still running, or it has returned and the audio is being saved. *)
CancelledInFlight(j) ==
    /\ jobs[j].status = CANCELLED
    /\ \/ tasks[j].pc = "inference"
       \/ tasks[j].pc = "saving" /\ jobs[j].message = <<"Saving audio file...">>

(* C1: once a job's status is completed, failed or cancelled, no step sets
   it to queued or processing. *)
C1_TerminalNeverReopened ==
    [][\A j \in DOMAIN jobs :
          jobs[j].status \in Terminal
             => jobs'[j].status \notin {QUEUED, PROCESSING}]_vars

(* C2: a job cancelled while its inference call is in flight stays
   cancelled and gets no result when that call resolves successfully and the
   audio is saved: every step other than a failure of the job leaves it
   cancelled and without audio_url, audio_path, file_size and
   actual_duration. *)
C2_CancelledResultDiscarded ==
    [][\A j \in DOMAIN jobs :
          (CancelledInFlight(j) /\ jobs'[j].status # FAILED)
             => (jobs'[j].status = CANCELLED /\ ~HasResult(jobs'[j]))]_vars

(* C3: a job cancelled while still queued (its background task has not
   made its first update) stays cancelled in every later step, and a download
   of it is answered 400. *)
C3_CancelledWhileQueuedStays ==
    [][\A j \in DOMAIN jobs :
          (jobs[j].status = CANCELLED /\ tasks[j].pc = "scheduled")
             => /\ jobs'[j].status = CANCELLED
                /\ download_generated_audio(jobs', files', j).code = 400]_vars

(* C4: once a cancel of a job has succeeded, a later cancel of the same job
   is answered 400 and leaves the job record unchanged. *)
C4_SecondCancelRejected ==
    [][\A j \in DOMAIN jobs :
          (jobs[j].status = CANCELLED /\ CancelStep(j))
             => (resp'.code = 400 /\ jobs'[j] = jobs[j])]_vars

(* C5: a cancel of a queued or processing job is answered 200, sets the
   status to cancelled, sets completed_at and the cancellation message, and a
   status query handled next reports cancelled. *)
C5_CancelActiveJob ==
    [][\A j \in DOMAIN jobs :
          (jobs[j].status \in {QUEUED, PROCESSING} /\ CancelStep(j))
             => /\ resp'.code = 200
                /\ jobs'[j].status = CANCELLED
                /\ IsSet(jobs'[j].completed_at)
                /\ jobs'[j].message = <<"Job cancelled by user">>
                /\ get_generation_status(jobs', j).code = 200
                /\ get_generation_status(jobs', j).body.status = CANCELLED]_vars

(* A processing job has just been cancelled, its inference still in flight. *)
C5_Witness ==
    \E j \in DOMAIN jobs :
        /\ resp = Response("cancel", Some(j), 200, None)
        /\ tasks[j].pc = "inference"
        /\ jobs[j].status = CANCELLED
        /\ IsSet(jobs[j].started_at)

(* C6: a cancel of a completed or failed job is answered 400 and leaves
   every field of the job record unchanged. *)
C6_CancelFinishedJobRejected ==
    [][\A j \in DOMAIN jobs :
          (jobs[j].status \in {COMPLETED, FAILED} /\ CancelStep(j))
             => (resp'.code = 400 /\ jobs'[j] = jobs[j])]_vars

(* A cancel has just been refused for a completed job and for a failed job
   there is one to refuse. *)
C6_Witness ==
    \E j, k \in DOMAIN jobs :
        /\ resp = Response("cancel", Some(j), 400, None)
        /\ jobs[j].status = FAILED
        /\ jobs[k].status = COMPLETED

(* C7: the progress callback never changes the progress or the message of
   a job whose status is completed, failed or cancelled. *)
C7_NoProgressOnTerminalJob ==
    [][\A j \in DOMAIN jobs :
          (jobs[j].status \in Terminal /\ ReporterStep(j))
             => /\ jobs'[j].progress = jobs[j].progress
                /\ jobs'[j].message = jobs[j].message]_vars

(* C8: once the inference call of a job has resolved, with a tensor or with
   an exception, the progress simulation task of the job makes no update. *)
C8_ReporterStoppedAtResolve ==
    [][\A j \in DOMAIN tasks :
          tasks[j].pc \in {"saving", "done"}
             => /\ ~ReporterStep(j)
                /\ tasks'[j].reporter # "running"]_vars

(* One job's inference has returned a tensor and another's has raised; both
   had their progress task started, and it is stopped. *)
C8_Witness ==
    \E j, k \in DOMAIN tasks :
        /\ tasks[j].pc = "saving" /\ tasks[j].reporter = "cancelled"
        /\ tasks[k].pc = "done" /\ tasks[k].reporter = "cancelled"
        /\ jobs[k].status = FAILED
        /\ jobs[k].error_message = Some("generation error")

(* C9: the seed the engine's generation step receives is the seed of the
   request, and none when the request has none. *)
C9_SeedReachesEngine ==
    \A j \in DOMAIN tasks :
        IsSet(tasks[j].eargs) => tasks[j].eargs[1].seed = tasks[j].request.seed

(* C10: two completed jobs submitted with the same prompt, duration,
   sampling parameters and seed have the same artifact bytes. *)
C10_SameSeedSameArtifact ==
    \A j, k \in DOMAIN jobs :
        (/\ jobs[j].status = COMPLETED /\ jobs[k].status = COMPLETED
         /\ j \in DOMAIN files /\ k \in DOMAIN files
         /\ tasks[j].request = tasks[k].request
         /\ IsSet(tasks[j].request.seed))
            => files[j] = files[k]

(* The step resumed the job's generation call, and inside _generate_audio
   the model had raised: the call returned the fallback of lines 335-339, or
   an exception left it. *)
EngineRaised(j) ==
    /\ tasks[j].pc = "inference"
    /\ tasks'[j].pc # "inference"
    /\ \/ tasks'[j].tensor = None
       \/ tasks'[j].tensor = Some(Silence(engine, tasks[j].eargs[1]))

(* C11: when the engine raises while generating for a job that is not
   cancelled, the job is failed with an error message as the call resolves,
   and no later step completes it. *)
C11_EngineErrorFailsJob ==
    [][\A j \in DOMAIN jobs :
          /\ (jobs[j].status # CANCELLED /\ EngineRaised(j))
                => (jobs'[j].status = FAILED /\ IsSet(jobs'[j].error_message))
          /\ (/\ jobs[j].status # CANCELLED
              /\ tasks[j].pc = "saving"
              /\ tasks[j].tensor[1].kind = "silence")
                => jobs'[j].status # COMPLETED]_vars

(* The step resumed the job's save call, and the save had raised: no file
   was written for the job. *)
SaveFailed(j) ==
    /\ tasks[j].pc = "saving"
    /\ tasks'[j].pc = "done"
    /\ j \notin DOMAIN files'

(* C12: when the save of a processing job's audio fails, the job becomes
   failed with completed_at and an error message set, and audio_path,
   audio_url, file_size and actual_duration stay unset. *)
C12_SaveFailureFailsJob ==
    [][\A j \in DOMAIN jobs :
          (jobs[j].status = PROCESSING /\ SaveFailed(j))
             => /\ jobs'[j].status = FAILED
                /\ IsSet(jobs'[j].completed_at)
                /\ IsSet(jobs'[j].error_message)
                /\ ~HasResult(jobs'[j])]_vars

(* A job's save has failed: the task is over, there is no file, and the job
   carries the error of the save. *)
C12_Witness ==
    \E j \in DOMAIN jobs :
        /\ tasks[j].pc = "done"
        /\ j \notin DOMAIN files
        /\ jobs[j].status = FAILED
        /\ jobs[j].error_message = Some("save error")
        /\ jobs[j].progress = 0

(* C13: in every state no job has both a result (audio_url, audio_path,
   file_size or actual_duration) and an error message; a job with a result is
   completed and a job with an error message is failed. *)
C13_ResultErrorExclusive ==
    \A j \in DOMAIN jobs :
        /\ ~(HasResult(jobs[j]) /\ IsSet(jobs[j].error_message))
        /\ HasResult(jobs[j]) => jobs[j].status = COMPLETED
        /\ IsSet(jobs[j].error_message) => jobs[j].status = FAILED

(* One job has a result and another an error. *)
C13_Witness ==
    \E j, k \in DOMAIN jobs :
        /\ IsSet(jobs[j].audio_url) /\ IsSet(jobs[j].file_size)
        /\ IsSet(jobs[j].actual_duration)
        /\ IsSet(jobs[k].error_message)

(* C14: what a status query returns in any state is no half-applied
   update: with status completed it has audio_url, file_size,
   actual_duration and completed_at set and progress 1.0; with status failed
   it has error_message and completed_at set. *)
C14_NoPartialTransition ==
    \A j \in DOMAIN jobs :
        LET r == get_generation_status(jobs, j).body
        IN  /\ r.status = COMPLETED
                => /\ IsSet(r.audio_url) /\ IsSet(r.file_size)
                   /\ IsSet(r.actual_duration) /\ IsSet(r.completed_at)
                   /\ r.progress = 10000
            /\ r.status = FAILED
                => IsSet(r.error_message) /\ IsSet(r.completed_at)

(* A status query has just answered completed for one job while the
   background task of another is between two of its updates. *)
C14_Witness ==
    \E j, k \in DOMAIN jobs :
        /\ resp = get_generation_status(jobs, j)
        /\ jobs[j].status = COMPLETED
        /\ tasks[k].pc = "saving"
        /\ jobs[k].status = PROCESSING

(* All the values of the progress simulation, from the first to the last:
   they rise from the 0.3 set at the start of generation and stay below the
   0.8 set before the save. *)
ReporterValuesRise ==
    \A i \in 0..(steps - 1) :
        /\ ProgressValue(i) >= start_progress
        /\ ProgressValue(i) <= 8000
        /\ i > 0 => ProgressValue(i) >= ProgressValue(i - 1)

(* C15: while a job's status is processing, the progress a status query
   returns after a step is not below what it returned before the step, and a
   job that has left processing does not return to it; the values of the
   progress simulation rise; and in every state the progress of a completed
   job is 1.0. *)
C15_ProgressMonotoneWhileProcessing ==
    /\ [][/\ \A j \in DOMAIN jobs :
               jobs'[j] # jobs[j] =>
                 LET before == get_generation_status(jobs, j).body
                     after == get_generation_status(jobs', j).body
                 IN  /\ (before.status = PROCESSING
                            /\ after.status = PROCESSING)
                           => after.progress >= before.progress
                     /\ (IsSet(before.started_at)
                            /\ before.status # PROCESSING)
                           => after.status # PROCESSING
          /\ ReporterValuesRise]_vars
    /\ [](\A j \in DOMAIN jobs :
             jobs[j].status = COMPLETED
                => get_generation_status(jobs, j).body.progress = 10000)

(* A status query has just read a processing job after the second update of
   its progress simulation. *)
C15_Witness ==
    \E j \in DOMAIN jobs :
        /\ resp = get_generation_status(jobs, j)
        /\ resp.body.status = PROCESSING
        /\ tasks[j].i = 2
        /\ resp.body.progress = ProgressValue(1)

(* C16: no step changes the progress of a job whose status is completed,
   failed or cancelled. *)
C16_ProgressFrozenOnceTerminal ==
    [][\A j \in DOMAIN jobs :
          jobs[j].status \in Terminal
             => jobs'[j].progress = jobs[j].progress]_vars

(* None of the values of the progress simulation is 1.0. *)
ReporterBelowFull == \A i \in 0..(steps - 1) : ProgressValue(i) < 10000

(* C17: a job whose progress is 1.0 is completed, its background task is
   over and its file is written; and none of the values of the progress
   simulation is 1.0. *)
C17_FullProgressOnlyCompleted ==
    /\ \A j \in DOMAIN jobs :
          jobs[j].progress = 10000
             => /\ jobs[j].status = COMPLETED
                /\ tasks[j].pc = "done"
                /\ j \in DOMAIN files
    /\ ReporterBelowFull

(* One job is completed at 1.0 while another, its inference returned, is
   about to be saved at 0.8. *)
C17_Witness ==
    \E j, k \in DOMAIN jobs :
        /\ jobs[j].progress = 10000 /\ jobs[j].status = COMPLETED
        /\ tasks[k].pc = "saving" /\ jobs[k].progress = 8000

(* Some job's background task is suspended in an executor call, of the
   generation or of the save. *)
ExecutorCallInFlight ==
    \E j \in DOMAIN tasks : tasks[j].pc \in {"inference", "saving"}

(* C19: while executor calls are in flight, a status query and a cancel of
   any job id, a listing and (below the model's bound on the number of jobs)
   a submission of any valid body can each be handled at once; the step that
   handles a request leaves every background task where it was; and when a
   submission is answered its own background task has not started. *)
C19_HandlersNeverWait ==
    /\ [](ExecutorCallInFlight =>
            /\ \A j \in JobIds : ENABLED GetStatus(j) /\ ENABLED Cancel(j)
            /\ \A q \in ListQueries : ENABLED ListJobs(q[1], q[2])
            /\ \A raw \in RawRequests :
                  (RequestValid(raw) /\ Cardinality(DOMAIN jobs) < MaxJobs)
                     => ENABLED Submit(raw))
    /\ [][resp'.op # "none" =>
            /\ \A j \in DOMAIN tasks : tasks'[j] = tasks[j]
            /\ (resp'.op = "generate" /\ resp'.code = 200)
                  => tasks'[resp'.job_id[1]].pc = "scheduled"]_vars

(* A submission has just been answered, its task not yet started, while the
   inference of another job is in flight. *)
C19_Witness ==
    \E j, k \in DOMAIN tasks :
        /\ resp.op = "generate" /\ resp.code = 200 /\ resp.job_id = Some(j)
        /\ tasks[j].pc = "scheduled"
        /\ tasks[k].pc = "inference"

(* C18: under Fairness, every job that was submitted is in the end
   completed or failed. *)
C18_EveryJobEnds ==
    \A j \in JobIds :
        (j \in DOMAIN jobs)
           ~> (j \in DOMAIN jobs /\ jobs[j].status \in {COMPLETED, FAILED})

(* Both jobs have ended and their tasks are over: one is completed, the
   other failed. *)
C18_Witness ==
    \E j, k \in DOMAIN jobs :
        /\ jobs[j].status = COMPLETED /\ tasks[j].pc = "done"
        /\ jobs[k].status = FAILED /\ tasks[k].pc = "done"

(* C20: a step that answers a submission with 200 adds one record, under an
   id no record had, and leaves the other records as they were; the new
   record is queued, at progress 0.0, created at the time of the step; the
   response carries the record's job id, the status queued and the record's
   created_at. *)
C20_SubmitAddsOneQueuedJob ==
    [][(resp'.op = "generate" /\ resp'.code = 200) =>
          LET id == resp'.body.job_id
          IN  /\ id \notin DOMAIN jobs
              /\ DOMAIN jobs' = DOMAIN jobs \cup {id}
              /\ \A j \in DOMAIN jobs : jobs'[j] = jobs[j]
              /\ jobs'[id].job_id = id
              /\ jobs'[id].status = QUEUED
              /\ jobs'[id].progress = 0
              /\ jobs'[id].created_at = clock'
              /\ jobs'[id].created_at >= clock
              /\ resp'.body.status = QUEUED
              /\ resp'.body.created_at = jobs'[id].created_at]_vars

(* A second submission has just been answered, later than the first, whose
   job is no longer queued. *)
C20_Witness ==
    \E j, k \in DOMAIN jobs :
        /\ resp.op = "generate" /\ resp.code = 200
        /\ resp.body.job_id = k
        /\ jobs[k].status = QUEUED
        /\ jobs[k].created_at > jobs[j].created_at
        /\ jobs[j].status = PROCESSING

(* The body is outside what the request's fields are documented to take:
   a duration of 5 to 120 seconds, a temperature of 0.1 to 2.0, a seed from 0
   up, a prompt with text in it. *)
OutsideDocumentedRanges(raw) ==
    \/ raw.duration < 5 \/ raw.duration > 120
    \/ raw.temperature < 1 \/ raw.temperature > 20
    \/ IsSet(raw.seed) /\ raw.seed[1] < 0
    \/ \A p \in 1..Len(raw.prompt) : raw.prompt[p] = " "

(* C21: in every state a body outside the documented ranges can only be
   answered 422, never accepted; and the step that answers 422 leaves the
   registry, the background tasks and the count list_jobs reports as they
   were. *)
C21_InvalidSubmissionRejected ==
    /\ [](\A raw \in RawRequests :
             OutsideDocumentedRanges(raw)
                => (~ENABLED Submit(raw) /\ ENABLED SubmitInvalid(raw)))
    /\ [][(resp'.op = "generate" /\ resp'.code = 422) =>
             /\ jobs' = jobs /\ tasks' = tasks /\ files' = files
             /\ list_jobs(jobs', 50, None).body.total
                   = list_jobs(jobs, 50, None).body.total]_vars

(* A submission has just been refused while one job is recorded and another
   could still be. *)
C21_Witness ==
    /\ resp = Response("generate", None, 422, None)
    /\ Cardinality(DOMAIN jobs) = 1
    /\ \E raw \in RawRequests : raw.duration = 0 /\ ENABLED SubmitInvalid(raw)

(* C22: a status query, a cancel or a download for an id under which no job
   is recorded is answered 404 and changes neither the registry nor the
   tasks nor the files. *)
C22_UnknownIdNotFound ==
    [][\A j \in JobIds \ DOMAIN jobs :
          (resp'.op \in {"status", "cancel", "download"}
              /\ resp'.job_id = Some(j))
             => /\ resp'.code = 404
                /\ jobs' = jobs /\ tasks' = tasks /\ files' = files]_vars

(* A download of an id never issued has just been answered 404 while a job
   is recorded under another id. *)
C22_Witness ==
    \E j \in JobIds \ DOMAIN jobs :
        /\ resp = Response("download", Some(j), 404, None)
        /\ DOMAIN jobs # {}

(* C23: in every state a download of a recorded job that is queued,
   processing, failed or cancelled is answered 400, and a download answered
   with the file's bytes is that of a completed job; the step that handles
   a download answers so. *)
C23_DownloadOnlyCompleted ==
    /\ [](\A j \in DOMAIN jobs :
            LET r == download_generated_audio(jobs, files, j)
            IN  /\ jobs[j].status \in {QUEUED, PROCESSING, FAILED, CANCELLED}
                     => r.code = 400
                /\ r.code = 200
                     => (jobs[j].status = COMPLETED /\ r.body = files[j]))
    /\ [][\A j \in DOMAIN jobs :
            (resp'.op = "download" /\ resp'.job_id = Some(j))
               => resp' = download_generated_audio(jobs, files, j)]_vars

(* A download has just been refused for a cancelled job while another job
   is completed and its file can be downloaded. *)
C23_Witness ==
    \E j, k \in DOMAIN jobs :
        /\ resp = Response("download", Some(j), 400, None)
        /\ jobs[j].status = CANCELLED
        /\ jobs[k].status = COMPLETED
        /\ download_generated_audio(jobs, files, k).code = 200

(* C24: every record is kept under its own job id; no step removes a
   record or changes the job id, prompt or created_at it was made with; and
   a submission answered 200 was given an id under which no record was kept,
   and left the records there were untouched. *)
C24_IdentifierNeverReassigned ==
    /\ [](\A j \in DOMAIN jobs : jobs[j].job_id = j)
    /\ [][\A j \in DOMAIN jobs :
            /\ j \in DOMAIN jobs'
            /\ jobs'[j].job_id = jobs[j].job_id
            /\ jobs'[j].prompt = jobs[j].prompt
            /\ jobs'[j].created_at = jobs[j].created_at
            /\ (resp'.op = "generate" /\ resp'.code = 200)
                  => (resp'.job_id # Some(j) /\ jobs'[j] = jobs[j])]_vars

(* As many submissions as the model allows have been answered, the last one
   just now, and each has its own record. *)
C24_Witness ==
    /\ resp.op = "generate" /\ resp.code = 200
    /\ DOMAIN jobs = JobIds
    /\ resp.job_id = Some(MaxJobs)
    /\ \A j \in JobIds : jobs[j].job_id = j

(* C25: a failed job is failed after every step, with the error message it
   had. *)
C25_FailedStaysFailed ==
    [][\A j \in DOMAIN jobs :
          jobs[j].status = FAILED
             => /\ jobs'[j].status = FAILED
                /\ jobs'[j].error_message = jobs[j].error_message]_vars

(* A cancel of a failed job has just been refused while the other job is
   being generated. *)
C25_Witness ==
    \E j, k \in DOMAIN jobs :
        /\ resp = Response("cancel", Some(j), 400, None)
        /\ jobs[j].status = FAILED /\ IsSet(jobs[j].error_message)
        /\ tasks[k].pc = "inference"

(* C26: in every state a job whose status is cancelled has no error
   message. *)
C26_CancelledHasNoError ==
    \A j \in DOMAIN jobs :
        jobs[j].status = CANCELLED => ~IsSet(jobs[j].error_message)

(* One job is cancelled with its audio about to be saved; the other has
   failed and carries its error. *)
C26_Witness ==
    \E j, k \in DOMAIN jobs :
        /\ jobs[j].status = CANCELLED /\ tasks[j].pc = "saving"
        /\ jobs[k].status = FAILED /\ IsSet(jobs[k].error_message)

(* C27: in every state completed_at is set exactly when the status is
   completed, failed or cancelled; started_at is set when the status is
   processing, completed or failed, and unset when it is queued. *)
C27_TimestampsFollowStatus ==
    \A j \in DOMAIN jobs :
        /\ IsSet(jobs[j].completed_at) <=> jobs[j].status \in Terminal
        /\ jobs[j].status \in {PROCESSING, COMPLETED, FAILED}
              => IsSet(jobs[j].started_at)
        /\ jobs[j].status = QUEUED => ~IsSet(jobs[j].started_at)

(* The job passes the status filter of a listing. *)
Matches(jd, status) == IsSet(status) => jd.status = status[1]

(* C28: for every limit, without a status filter and with the filters
   queued and processing, in every state, the listing has no more entries
   than limit (none when limit is negative), its entries
   are entries of matching jobs, each once, in the order of created_at from
   the newest, and no matching job left out is newer than one listed. *)
C28_ListNewestFirstWithinLimit ==
    \A limit \in ListLimits, status \in {None, Some(QUEUED), Some(PROCESSING)} :
        LET r == list_jobs(jobs, limit, status).body
            listed == {r.jobs[p].job_id : p \in 1..Len(r.jobs)}
        IN  /\ Len(r.jobs) <= (IF limit < 0 THEN 0 ELSE limit)
            /\ Cardinality(listed) = Len(r.jobs)
            /\ \A p \in 1..Len(r.jobs) :
                  /\ r.jobs[p].job_id \in DOMAIN jobs
                  /\ r.jobs[p] = JobSummary(jobs[r.jobs[p].job_id])
                  /\ Matches(jobs[r.jobs[p].job_id], status)
                  /\ p > 1 => r.jobs[p - 1].created_at >= r.jobs[p].created_at
            /\ \A j \in DOMAIN jobs \ listed :
                  Matches(jobs[j], status) =>
                     \A p \in 1..Len(r.jobs) :
                         r.jobs[p].created_at >= jobs[j].created_at

(* C29: for every limit and status filter, in every state, the listing is
   answered 200; with a status filter all its entries have that status, and
   it is empty with a total of 0 when no job has it; and the step that
   answers a listing leaves the records as they were. *)
C29_ListNeverFails ==
    /\ [](\A limit \in ListLimits, status \in ListFilters :
            LET r == list_jobs(jobs, limit, status)
            IN  /\ r.code = 200
                /\ IsSet(status) =>
                      /\ \A p \in 1..Len(r.body.jobs) :
                            r.body.jobs[p].status = status[1]
                      /\ (\A j \in DOMAIN jobs : jobs[j].status # status[1])
                            => (r.body.jobs = <<>> /\ r.body.total = 0))
    /\ [][resp'.op = "list" => jobs' = jobs]_vars


(* C30: a step never removes or changes an artifact that exists, and a save
   step of a job's task that leaves an artifact for the job starts from a
   state without one; once a job's artifact exists its task has finished, so
   no later step of the job writes again.  In every state a completed job's
   recorded location is the path built from its job id, different ids give
   different paths, the artifact is stored under that id and is what the
   download returns. *)
C30_ArtifactWrittenOnce ==
    /\ [][/\ \A j \in DOMAIN files :
                j \in DOMAIN files' /\ files'[j] = files[j]
          /\ \A j \in DOMAIN tasks :
                (tasks[j].pc = "saving" /\ tasks'[j].pc = "done"
                    /\ j \in DOMAIN files')
                  => j \notin DOMAIN files]_vars
    /\ [](/\ \A j \in DOMAIN files : tasks[j].pc = "done"
          /\ \A j, k \in JobIds : AudioPath(j) = AudioPath(k) => j = k
          /\ \A j \in DOMAIN jobs :
                jobs[j].status = COMPLETED
                  => /\ jobs[j].audio_path = Some(AudioPath(j))
                     /\ j \in DOMAIN files
                     /\ download_generated_audio(jobs, files, j).body = files[j])

(* Two jobs are completed with different artifacts, and the first one has
   just been downloaded after the second one was written. *)
C30_Witness ==
    \E j, k \in DOMAIN files :
        /\ j < k
        /\ files[j] # files[k]
        /\ jobs[j].status = COMPLETED
        /\ jobs[k].status = COMPLETED
        /\ resp.op = "download" /\ resp.code = 200 /\ resp.job_id = Some(j)
        /\ resp.body = files[j]

(* The fields of a record that come from the submission. *)
SubmittedFields(jd) ==
    <<jd.job_id, jd.created_at, jd.prompt, jd.duration, jd.temperature,
      jd.top_k, jd.top_p, jd.cfg_coef>>

(* C31: every step keeps every recorded job in the registry with the
   job_id, created_at, prompt, duration, temperature, top_k, top_p and
   cfg_coef it had before the step. *)
C31_SubmittedFieldsNeverChange ==
    [][\A j \in DOMAIN jobs :
          /\ j \in DOMAIN jobs'
          /\ SubmittedFields(jobs'[j]) = SubmittedFields(jobs[j])]_vars

(* One job was dispatched, reported on, completed at a later time than it
   was created, and another failed; both still carry what their requests
   gave. *)
C31_Witness ==
    \E j, k \in DOMAIN jobs :
        /\ jobs[j].status = COMPLETED
        /\ jobs[j].progress = 10000
        /\ jobs[j].created_at < jobs[j].completed_at[1]
        /\ jobs[k].status = FAILED
        /\ IsSet(jobs[k].completed_at)
        /\ \A x \in {j, k} :
              SubmittedFields(jobs[x]) =
                  SubmittedFields(job_data(x, tasks[x].request, jobs[x].created_at))

(* How far a background task has run. *)
TaskRank(pc) ==
    CASE pc = "scheduled" -> 0
      [] pc = "inference" -> 1
      [] pc = "saving" -> 2
      [] pc = "done" -> 3

(* C32: in every state the jobs and the background tasks have the same ids,
   one task per job; a step that records a job gives it a task that has not
   started; no step removes a task or moves it back; and a step after which
   a task waits for the engine's generation call, not having waited for it
   before the step, starts from the task not yet started, so that the call
   is made at most once per job. *)
C32_OneTaskOneInference ==
    /\ [](DOMAIN tasks = DOMAIN jobs)
    /\ [][/\ \A j \in DOMAIN jobs' \ DOMAIN jobs :
                j \in DOMAIN tasks' /\ tasks'[j].pc = "scheduled"
          /\ \A j \in DOMAIN tasks :
                /\ j \in DOMAIN tasks'
                /\ TaskRank(tasks'[j].pc) >= TaskRank(tasks[j].pc)
                /\ (tasks'[j].pc = "inference" /\ tasks[j].pc # "inference")
                      => tasks[j].pc = "scheduled"]_vars

(* The task of a failed job and the task of a completed job are over, the
   engine was called for both, and a cancel request came afterwards. *)
C32_Witness ==
    \E j, k \in DOMAIN tasks :
        /\ tasks[j].pc = "done" /\ jobs[j].status = FAILED
        /\ IsSet(tasks[j].eargs)
        /\ tasks[k].pc = "done" /\ jobs[k].status = COMPLETED
        /\ IsSet(tasks[k].eargs)
        /\ resp.op = "cancel" /\ resp.code = 400

(* The records, tasks and artifacts of all jobs but job_id are what they
   were before the step. *)
OthersUntouched(job_id) ==
    \A k \in DOMAIN jobs \ {job_id} :
        /\ k \in DOMAIN jobs' /\ jobs'[k] = jobs[k]
        /\ k \in DOMAIN tasks' /\ tasks'[k] = tasks[k]
        /\ (k \in DOMAIN files => k \in DOMAIN files' /\ files'[k] = files[k])
        /\ (k \in DOMAIN files' => k \in DOMAIN files)

(* C33: a step of a job's background task (its dispatch, a reporter update,
   the end of its generation, the end of its save) and a step that answers
   a cancel request for a job leave the record, the task and the artifact
   of every other job unchanged. *)
C33_StepsTouchOwnJobOnly ==
    [][\A job_id \in DOMAIN jobs :
          (\/ tasks'[job_id] # tasks[job_id]
           \/ (resp'.op = "cancel" /\ resp'.job_id = Some(job_id)))
            => OthersUntouched(job_id)]_vars

(* Two jobs run at the same time: the reporter of one has written an
   update while the other waits for its save, and both are processing. *)
C33_Witness ==
    \E j, k \in DOMAIN tasks :
        /\ tasks[j].pc = "inference" /\ tasks[j].i > 0
        /\ jobs[j].status = PROCESSING
        /\ jobs[j].progress = ProgressValue(tasks[j].i - 1)
        /\ tasks[k].pc = "saving"
        /\ jobs[k].status = PROCESSING
        /\ jobs[k].progress = 8000

(* C34: every step keeps every recorded job id in the registry; in every
   state the status query answers 200 with the job's own record for every
   recorded id; and a step that answers a status query for an id recorded
   before the step answers 200. *)
C34_RecordsNeverDeleted ==
    /\ [](\A j \in DOMAIN jobs :
            /\ get_generation_status(jobs, j).code = 200
            /\ get_generation_status(jobs, j).body.job_id = j)
    /\ [][/\ \A j \in DOMAIN jobs : j \in DOMAIN jobs'
          /\ \A j \in DOMAIN jobs :
                (resp'.op = "status" /\ resp'.job_id = Some(j))
                  => resp'.code = 200]_vars

(* A job is cancelled and another has failed and its task is over; the
   last step answered the status query for the cancelled one with 200. *)
C34_Witness ==
    \E j, k \in DOMAIN jobs :
        /\ jobs[j].status = CANCELLED
        /\ jobs[k].status = FAILED /\ tasks[k].pc = "done"
        /\ resp.op = "status" /\ resp.code = 200 /\ resp.job_id = Some(j)
        /\ resp.body.status = CANCELLED

(* The k-th value of the claim, 0.3 + 0.45 * k / 20, in 1/10000. *)
ClaimedValue(k) == 3000 + 225 * k

(* C35: the progress simulation of a generation call never has made more
   than 20 updates and cannot make another after the 20th; a step in which
   it makes its k-th update writes 0.3 + 0.45 * k / 20 as the job's
   progress, a value above 0.3, not above 0.75, and above the value of
   the update before it. *)
C35_ReporterValues ==
    /\ [](\A j \in DOMAIN tasks :
             /\ tasks[j].i <= 20
             /\ tasks[j].i = 20 => ~ENABLED ProgressStepAll(j))
    /\ [][\A j \in DOMAIN tasks :
             tasks'[j].i = tasks[j].i + 1
               => LET k == tasks'[j].i
                  IN  /\ k \in 1..20
                      /\ jobs'[j].progress = ClaimedValue(k)
                      /\ jobs'[j].progress > 3000
                      /\ jobs'[j].progress <= 7500
                      /\ k > 1 => jobs'[j].progress > ClaimedValue(k - 1)
                      /\ k > 1 => jobs[j].progress = ClaimedValue(k - 1)]_vars

(* The progress simulation of a job has made its 20th update, 0.75, while
   the generation call is still running. *)
C35_Witness ==
    \E j \in DOMAIN tasks :
        /\ tasks[j].pc = "inference"
        /\ tasks[j].reporter = "running"
        /\ tasks[j].i = 20
        /\ jobs[j].progress = 7500
        /\ jobs[j].status = PROCESSING

(* All the values of the progress simulation lie between 0.1 and 0.8. *)
ReporterWithinProcessingRange ==
    \A i \in 0..(steps - 1) : ProgressValue(i) \in 1000..8000

(* C36: in every state a queued job has progress 0.0, a processing job a
   progress from 0.1 to 0.8, a completed job 1.0 and a failed job 0.0; every
   job's progress is from 0.0 to 1.0; and every value the progress
   simulation can write is from 0.1 to 0.8. *)
C36_ProgressTiedToStatus ==
    /\ \A j \in DOMAIN jobs :
          LET jd == jobs[j]
          IN  /\ jd.status = QUEUED => jd.progress = 0
              /\ jd.status = PROCESSING => jd.progress \in 1000..8000
              /\ jd.status = COMPLETED => jd.progress = 10000
              /\ jd.status = FAILED => jd.progress = 0
              /\ jd.progress \in 0..10000
    /\ ReporterWithinProcessingRange

(* A job that was cancelled while queued is processing again at 0.3 and
   another has failed at 0.0 after its generation call, its progress
   simulation stopped. *)
C36_Witness ==
    \E j, k \in DOMAIN jobs :
        /\ jobs[j].status = PROCESSING /\ jobs[j].progress = 3000
        /\ IsSet(jobs[j].completed_at)
        /\ jobs[k].status = FAILED /\ jobs[k].progress = 0
        /\ tasks[k].reporter = "cancelled"

(* C37: in every state where all the generation calls made were given a
   seed, the output of every call that has returned is one the call gives
   when it runs alone with its arguments and its seed. *)
C37_SeededOutputsIndependent ==
    (\A c \in DOMAIN tasks :
        tasks[c].op = "generate" => IsSet(tasks[c].eargs[1].seed))
      => \A c \in DOMAIN tasks :
            IsSet(tasks[c].out)
              => tasks[c].out[1] \in
                    ModelOutputs(engine, tasks[c].eargs[1])
                      \cup {Silence(engine, tasks[c].eargs[1])}

(* The service's check passes every body the request model accepts. *)
AcceptedPassService ==
    \A raw \in BoundaryRequests :
        RequestValid(raw)
          => _validate_generation_params(ServiceArgs(GenerationRequest(raw)))
               = None

(* C38: the service's parameter check passes the request made of every
   body the request model accepts; and the step in which a job's background
   task starts leaves the job processing and the task at the generation
   call, never failed by the parameter check. *)
C38_AcceptedRequestsPassServiceCheck ==
    /\ [](AcceptedPassService)
    /\ [][\A j \in DOMAIN tasks :
             (tasks[j].pc = "scheduled" /\ tasks'[j].pc # "scheduled")
               => /\ tasks'[j].pc = "inference"
                  /\ jobs'[j].status = PROCESSING
                  /\ ~IsSet(jobs'[j].error_message)]_vars

(* The job with every parameter at its highest accepted value and the job
   with every parameter at its lowest have both passed the service's check
   and wait for the generation call. *)
C38_Witness ==
    \E j, k \in DOMAIN jobs :
        /\ jobs[j].duration = 120 /\ jobs[j].temperature = 20
        /\ jobs[j].top_k = 1000 /\ jobs[j].top_p = 100
        /\ jobs[j].cfg_coef = 100
        /\ tasks[j].pc = "inference"
        /\ jobs[k].duration = 5 /\ jobs[k].temperature = 1
        /\ jobs[k].top_k = 1 /\ jobs[k].top_p = 0 /\ jobs[k].cfg_coef = 10
        /\ tasks[k].pc = "inference"

(* C39: in every state the model has been loaded at most once. *)
C39_ModelLoadedOnce == engine.loads <= 1

=============================================================================
